---- MODULE Spec2Model ----
(***************************************************************************)
(* Model of spotify-terminal's two-tier URI cache (cache.py) and of the    *)
(* path helpers of common.py it rests on.                                  *)
(*                                                                         *)
(* One main thread calls get / __setitem__ / clear / clear_cache and may   *)
(* construct a fresh UriCache; every __setitem__ starts one thread running *)
(* save(), which opens the entry's file for writing (creating or           *)
(* truncating it) and then writes the pickle through a buffered file, in   *)
(* one or more flushes.  The threads interleave freely with the main       *)
(* thread and with each other: nothing in the code orders them.            *)
(***************************************************************************)
EXTENDS Integers, Sequences, FiniteSets, Bags, TLC

\* ------------------------------------------------------------------ bounds

\* Number of save() threads started over a run (__setitem__ calls).
MaxWriters == 2

\* Longest key drawn for the get_filename check.
MaxKeyLen == 3

\* Latest reading of the clock, and latest call_time, of the PeriodicCallback runs.
MaxTime == 4

\* Longest period, and longest call_in delay, of the PeriodicCallback runs.
MaxPeriod == 2

\* Most consecutive update calls made with one call_time.
MaxCalls == 4

\* --------------------------------------------------------------- constants

\* The keys of the model, "a:b", "a_b" and "c", as character sequences.
Keys == { <<"a", ":", "b">>, <<"a", "_", "b">>, <<"c">> }

\* The keys the main thread uses in a run: two keys that share one file.
KeySets == { { <<"a", ":", "b">>, <<"a", "_", "b">> } }

\* The characters of the keys drawn for the get_filename check.
Chars == {"a", "b", ":", "_"}

\* The keys drawn for the get_filename check: 1 to MaxKeyLen characters.
KeyStrings == UNION { [1..n -> Chars] : n \in 1..MaxKeyLen }

\* The values stored.
Values == {"v1", "v2"}

\* What get returns when it falls off its end (cache.py:41): Python's None.
None == "None"

\* The user of the cache instance.
username == "user"

\* ----------------------------------------------------- paths (common.py)

\* tempfile.gettempdir(), a path as the sequence of its components.
TempDir == <<"tmp">>

\* os.path.join(dir, name) for a name that is one relative component.
PathJoin(dir, name) == Append(dir, name)

\* common.py:136, the path get_app_dir computes.
AppDirPath == PathJoin(TempDir, "spotifyterminal")

\* common.py:161, the path get_user_dir computes.
UserDirPath(user) == PathJoin(AppDirPath, user)

\* common.py:186, the path get_cache computes.
CachePath(user) == PathJoin(UserDirPath(user), ".cache")

\* common.py:222, the path get_auth_filename computes.
AuthPath(user) == PathJoin(UserDirPath(user), "auth")

\* The path and the directories above it.
Prefixes(path) == { SubSeq(path, 1, n) : n \in 1..Len(path) }

\* path lies below the directory dir.
Under(dir, path) == Len(path) > Len(dir) /\ SubSeq(path, 1, Len(dir)) = dir

\* common.py:199, os.path.join(get_cache(username), file).
get_file_from_cache(user, file) == PathJoin(CachePath(user), file)

\* str.replace(":", "_", 1): only the first ':' is replaced.
ReplaceFirst(key) ==
    [i \in 1..Len(key) |->
        IF key[i] = ":" /\ \A j \in 1..(i - 1) : key[j] # ":" THEN "_" ELSE key[i]]

\* str.replace(":", "_") of cache.py:80.
Replace(key) == [i \in 1..Len(key) |-> IF key[i] = ":" THEN "_" ELSE key[i]]

\* cache.py:79-80: the path returned for a key.
get_filename(key) == get_file_from_cache(username, Replace(key))

\* The entry files the keys of the model map to.
Files == { get_filename(k) : k \in Keys }

\* -------------------------------------------------------- pickle (cache.py)

\* The STOP opcode that ends every pickle.
STOP == "."

\* A byte of a hole left by writing past the end of a file.
NUL == "0"

\* pickle.dump(item, file): the bytes written, the item's opcodes then STOP.
Dump(item) == <<item, STOP>>

\* pickle.load(file) succeeds when the data starts with a whole pickle.
Loadable(data) == Len(data) >= 2 /\ data[1] \in Values /\ data[2] = STOP

\* pickle.load(file): the object of the pickle the data starts with.
Load(data) == data[1]

\* ------------------------------------------------------------------- state

VARIABLES
    cache,      \* self._cache: a function from the keys in memory to values
    disk,       \* the entry files that exist, each with its bytes
    dirs,       \* the directories that exist
    writers,    \* the save() threads started so far, a bag of thread states
    last,       \* the main thread's latest call and its outcome
    prev,       \* the call before that, when the two form a pair of Chains
    keys,       \* the keys the main thread uses in this run
    fn,         \* the inputs and outputs of the get_filename check
    timer       \* a PeriodicCallback, the clock and its latest call

vars == <<cache, disk, dirs, writers, last, prev, keys, fn, timer>>

\* The empty mapping, {} of cache.py:16.
Empty == [x \in {} |-> None]

\* A mapping without the entry for x (del d[x], os.remove).
Without(f, x) == [y \in (DOMAIN f) \ {x} |-> f[y]]

\* A mapping with the entry for x set to v (d[x] = v).
With(f, x, v) == [y \in (DOMAIN f) \cup {x} |-> IF y = x THEN v ELSE f[y]]

\* A record of one call of the main thread.
Call(op, key, val, src) == [op |-> op, key |-> key, val |-> val, src |-> src]

NoCall == Call("none", <<>>, None, "-")

\* The pairs of consecutive calls on one key that prev keeps track of.
Chains == { <<"set", "get">>, <<"clear", "get">>, <<"clear", "clear">>, <<"set", "set">> }

\* The latest call as the call before a call `op` on `key`: kept when the two
\* are on the same key and form one of Chains, when a get follows a get that
\* read the disk, or when a get follows the construction of an instance.
Before(op, key) ==
    IF \/ last.key = key /\ <<last.op, op>> \in Chains
       \/ last.key = key /\ last.op = "get" /\ last.src = "disk" /\ op = "get"
       \/ last.op = "new" /\ op = "get"
    THEN last
    ELSE NoCall

\* The get_filename check before it has run, on keys k1 and k2.
FnInput(k1, k2) == [k1 |-> k1, k2 |-> k2, p1 |-> <<>>, p2 |-> <<>>, done |-> FALSE]

FnIdle == FnInput(<<>>, <<>>)

\* No run of update calls at one time is under way.
NoRun == [t |-> 0, base |-> 0, calls |-> 0, fired |-> 0]

\* common.py:286-303: PeriodicCallback(period, func, active=active) built when
\* the clock reads `now`; op, at and fired describe its latest call, was names
\* the call before it, run the consecutive update calls made with one call_time.
PeriodicCallback(period, active, now) ==
    [period |-> period, active |-> active, next |-> now, now |-> now,
     op |-> "init", was |-> "none", at |-> now, fired |-> 0, run |-> NoRun]

\* The PeriodicCallback of the runs that do not use one.
TimerIdle == PeriodicCallback(1, FALSE, 0)

\* ensure_dir that never creates the directory.
ensure_dir_no_create(ds, path) == ds

\* common.py:113-126: os.makedirs(path) unless the path exists.
ensure_dir(ds, path) == IF path \in ds THEN ds ELSE ds \cup Prefixes(path)

\* The directories in place when get_cache returns: get_cache calls
\* get_user_dir, which calls get_app_dir, each wrapped in ensure_dir.
get_app_dir(ds) == ensure_dir(ds, AppDirPath)

get_user_dir(ds, user) == ensure_dir(get_app_dir(ds), UserDirPath(user))

get_cache(ds, user) == ensure_dir(get_user_dir(ds, user), CachePath(user))

\* The main thread has an uncaught exception from get.
Crashed == last.src = "raise"

Init ==
    /\ cache = Empty
    /\ disk = Empty
    /\ dirs = {TempDir, AppDirPath}
    /\ writers = EmptyBag
    /\ last = NoCall
    /\ prev = NoCall
    /\ keys \in KeySets
    /\ fn = FnIdle
    /\ timer = TimerIdle

\* ------------------------------------------------------------ UriCache.get

\* get checking the disk before memory: a file that unpickles wins over memory.
get_memory_disk_first(key) ==
    /\ key \in DOMAIN cache
    /\ dirs' = get_cache(dirs, username)
    /\ IF get_filename(key) \in DOMAIN disk /\ Loadable(disk[get_filename(key)])
       THEN /\ cache' = With(cache, key, Load(disk[get_filename(key)]))
            /\ last' = Call("get", key, Load(disk[get_filename(key)]), "disk")
       ELSE /\ cache' = cache
            /\ last' = Call("get", key, cache[key], "mem")
    /\ UNCHANGED disk

\* cache.py:29-31: the key is in memory.
get_memory(key) ==
    /\ key \in DOMAIN cache
    /\ last' = Call("get", key, cache[key], "mem")
    /\ UNCHANGED <<cache, disk, dirs>>

\* get returning what it unpickled without storing it in memory.
get_disk_not_stored(key) ==
    /\ key \notin DOMAIN cache
    /\ get_filename(key) \in DOMAIN disk
    /\ dirs' = get_cache(dirs, username)
    /\ cache' = cache
    /\ last' = IF Loadable(disk[get_filename(key)])
               THEN Call("get", key, Load(disk[get_filename(key)]), "disk")
               ELSE Call("get", key, None, "raise")
    /\ UNCHANGED disk

\* cache.py:34-39: the key is not in memory and its file exists.
get_disk(key) ==
    /\ key \notin DOMAIN cache
    /\ get_filename(key) \in DOMAIN disk
    /\ dirs' = get_cache(dirs, username)
    /\ IF Loadable(disk[get_filename(key)])
       THEN /\ cache' = With(cache, key, Load(disk[get_filename(key)]))
            /\ last' = Call("get", key, Load(disk[get_filename(key)]), "disk")
       ELSE /\ cache' = cache
            /\ last' = Call("get", key, None, "raise")
    /\ UNCHANGED disk

\* get remembering a miss: None is stored in memory for the key.
get_miss_cached(key) ==
    /\ key \notin DOMAIN cache
    /\ get_filename(key) \notin DOMAIN disk
    /\ dirs' = get_cache(dirs, username)
    /\ cache' = With(cache, key, None)
    /\ last' = Call("get", key, None, "miss")
    /\ UNCHANGED disk

\* cache.py:34-35, 41: the key is not in memory and has no file.
get_miss(key) ==
    /\ key \notin DOMAIN cache
    /\ get_filename(key) \notin DOMAIN disk
    /\ dirs' = get_cache(dirs, username)
    /\ last' = Call("get", key, None, "miss")
    /\ UNCHANGED <<cache, disk>>

get(key) ==
    /\ ~Crashed
    /\ \/ get_memory(key)
       \/ get_disk(key)
       \/ get_miss(key)
    /\ prev' = Before("get", key)
    /\ UNCHANGED <<writers, keys, fn, timer>>

\* ----------------------------------------------------- UriCache.__setitem__

\* cache.py:60: the thread that will run save(cache_filename, item).
Thread(filename, item) ==
    [file |-> filename, item |-> item, pc |-> "start", off |-> 0, linked |-> FALSE]

\* __setitem__ leaving the memory write to the thread: memory is not updated.
setitem_disk_only(key, item) ==
    /\ ~Crashed
    /\ BagCardinality(writers) < MaxWriters
    /\ dirs' = get_cache(dirs, username)
    /\ writers' = writers (+) SetToBag({Thread(get_filename(key), item)})
    /\ cache' = cache
    /\ last' = Call("set", key, item, "-")
    /\ prev' = Before("set", key)
    /\ UNCHANGED <<disk, keys, fn, timer>>

\* __setitem__ keying memory by the sanitized key, as the file name is.
setitem_sanitized(key, item) ==
    /\ ~Crashed
    /\ BagCardinality(writers) < MaxWriters
    /\ dirs' = get_cache(dirs, username)
    /\ writers' = writers (+) SetToBag({Thread(get_filename(key), item)})
    /\ cache' = With(cache, Replace(key), item)
    /\ last' = Call("set", key, item, "-")
    /\ prev' = Before("set", key)
    /\ UNCHANGED <<disk, keys, fn, timer>>

\* cache.py:59-63: start the thread that saves to disk, then save to memory.
setitem(key, item) ==
    /\ ~Crashed
    /\ BagCardinality(writers) < MaxWriters
    /\ dirs' = get_cache(dirs, username)
    /\ writers' = writers (+) SetToBag({Thread(get_filename(key), item)})
    /\ cache' = With(cache, key, item)
    /\ last' = Call("set", key, item, "-")
    /\ prev' = Before("set", key)
    /\ UNCHANGED <<disk, keys, fn, timer>>

\* ----------------------------------------------------------- UriCache.save

\* The bag of threads after one thread in state w moves to state w2.
Move(ws, w, w2) == (ws (-) SetToBag({w})) (+) SetToBag({w2})

\* A thread's handle stops naming its file once the file is removed.
Unlinked(w, files) == IF w.file \in files THEN [w EXCEPT !.linked = FALSE] ELSE w

\* The bag of threads after the files `files` are removed.
Unlink(ws, files) ==
    [r \in { Unlinked(w, files) : w \in DOMAIN ws } |->
        CopiesIn(r, ws)
        + (IF r.file \in files THEN CopiesIn([r EXCEPT !.linked = TRUE], ws) ELSE 0)]

\* cache.py:66: open(filename, "wb") creates the file or truncates it; it
\* raises when the directory is gone or the system refuses.
save_open(w, ok) ==
    /\ w.pc = "start"
    /\ IF ok /\ CachePath(username) \in dirs
       THEN /\ disk' = With(disk, w.file, <<>>)
            /\ writers' = Move(writers, w, [w EXCEPT !.pc = "open", !.linked = TRUE])
       ELSE /\ disk' = disk
            /\ writers' = Move(writers, w, [w EXCEPT !.pc = "failed"])
    /\ UNCHANGED <<cache, dirs, last, prev, keys, fn, timer>>

\* The bytes of a file after `bytes` are written at offset off (holes read as NUL).
WriteAt(data, off, bytes) ==
    [j \in 1..(IF Len(data) > off + Len(bytes) THEN Len(data) ELSE off + Len(bytes)) |->
        IF j > off /\ j <= off + Len(bytes) THEN bytes[j - off]
        ELSE IF j <= Len(data) THEN data[j]
        ELSE NUL]

\* save without the with block's close: the buffered bytes never reach the file.
save_dump_unflushed(w, n) ==
    /\ w.pc = "open"
    /\ n \in 1..(Len(Dump(w.item)) - w.off)
    /\ disk' = disk
    /\ writers' = Move(writers, w,
                       [w EXCEPT !.off = w.off + n,
                                 !.pc = IF w.off + n = Len(Dump(w.item))
                                        THEN "done" ELSE "open"])
    /\ UNCHANGED <<cache, dirs, last, prev, keys, fn, timer>>

\* cache.py:68 and the close of the with block: the buffered file flushes the
\* next n bytes of the pickle at the thread's offset; the last flush closes.
save_dump(w, n) ==
    /\ w.pc = "open"
    /\ n \in 1..(Len(Dump(w.item)) - w.off)
    /\ disk' = IF w.linked
               THEN With(disk, w.file,
                         WriteAt(disk[w.file], w.off, SubSeq(Dump(w.item), w.off + 1, w.off + n)))
               ELSE disk
    /\ writers' = Move(writers, w,
                       [w EXCEPT !.off = w.off + n,
                                 !.pc = IF w.off + n = Len(Dump(w.item))
                                        THEN "done" ELSE "open"])
    /\ UNCHANGED <<cache, dirs, last, prev, keys, fn, timer>>

\* cache.py:68: pickle.dump or a flush raises; the thread ends, the file stays.
save_fail(w) ==
    /\ w.pc = "open"
    /\ writers' = Move(writers, w, [w EXCEPT !.pc = "failed", !.off = 0, !.linked = FALSE])
    /\ UNCHANGED <<cache, disk, dirs, last, prev, keys, fn, timer>>

\* ---------------------------------------------------------- UriCache.clear

\* cache.py:45-49: del self._cache[key], a KeyError swallowed.
clear_memory(key) ==
    /\ cache' = IF key \in DOMAIN cache THEN Without(cache, key) ELSE cache
    /\ last' = Call("clear", key, None, "-")

\* clear removing the file of a key only when memory held the key.
clear_disk_if_cached(key, ok) ==
    /\ dirs' = get_cache(dirs, username)
    /\ IF ok /\ get_filename(key) \in DOMAIN disk /\ key \in DOMAIN cache
       THEN /\ disk' = Without(disk, get_filename(key))
            /\ writers' = Unlink(writers, {get_filename(key)})
       ELSE UNCHANGED <<disk, writers>>

\* cache.py:51-55: os.remove(self.get_filename(key)), any error swallowed.
clear_disk(key, ok) ==
    /\ dirs' = get_cache(dirs, username)
    /\ IF ok /\ get_filename(key) \in DOMAIN disk
       THEN /\ disk' = Without(disk, get_filename(key))
            /\ writers' = Unlink(writers, {get_filename(key)})
       ELSE UNCHANGED <<disk, writers>>

clear(key, ok) ==
    /\ ~Crashed
    /\ clear_memory(key)
    /\ clear_disk(key, ok)
    /\ prev' = Before("clear", key)
    /\ UNCHANGED <<keys, fn, timer>>

\* ----------------------------------------------------- common.clear_cache

\* clear_cache that empties the memory of the live instance as well.
clear_cache_resets_memory(ok) ==
    /\ ~Crashed
    /\ IF ok
       THEN /\ dirs' = get_cache(dirs, username) \ {CachePath(username)}
            /\ disk' = [f \in { g \in DOMAIN disk : ~Under(CachePath(username), g) } |-> disk[f]]
            /\ writers' = Unlink(writers, Files)
       ELSE /\ dirs' = get_cache(dirs, username)
            /\ UNCHANGED <<disk, writers>>
    /\ last' = Call("clear_cache", <<>>, IF ok THEN "removed" ELSE "logged", "-")
    /\ prev' = NoCall
    /\ cache' = Empty
    /\ UNCHANGED <<keys, fn, timer>>

\* common.py:208-213: shutil.rmtree(get_cache(username)), any error logged.
clear_cache(ok) ==
    /\ ~Crashed
    /\ IF ok
       THEN /\ dirs' = get_cache(dirs, username) \ {CachePath(username)}
            /\ disk' = [f \in { g \in DOMAIN disk : ~Under(CachePath(username), g) } |-> disk[f]]
            /\ writers' = Unlink(writers, Files)
       ELSE /\ dirs' = get_cache(dirs, username)
            /\ UNCHANGED <<disk, writers>>
    /\ last' = Call("clear_cache", <<>>, IF ok THEN "removed" ELSE "logged", "-")
    /\ prev' = NoCall
    /\ UNCHANGED <<cache, keys, fn, timer>>

\* ------------------------------------------------------ common.clear_auth

\* clear_auth without its try/except: a failed os.remove reaches the caller.
clear_auth_uncaught(ok) ==
    /\ ~Crashed
    /\ dirs' = get_user_dir(dirs, username)
    /\ IF ok /\ AuthPath(username) \in DOMAIN disk
       THEN /\ disk' = Without(disk, AuthPath(username))
            /\ last' = Call("clear_auth", <<>>, "removed", "-")
       ELSE /\ disk' = disk
            /\ last' = Call("clear_auth", <<>>, "logged", "raise")
    /\ prev' = NoCall
    /\ UNCHANGED <<cache, writers, keys, fn, timer>>

\* common.py:225-236: os.remove(get_auth_filename(username)); the removal
\* fails when told to or when there is no such file, and the error is logged.
clear_auth(ok) ==
    /\ ~Crashed
    /\ dirs' = get_user_dir(dirs, username)
    /\ IF ok /\ AuthPath(username) \in DOMAIN disk
       THEN /\ disk' = Without(disk, AuthPath(username))
            /\ last' = Call("clear_auth", <<>>, "removed", "-")
       ELSE /\ disk' = disk
            /\ last' = Call("clear_auth", <<>>, "logged", "-")
    /\ prev' = NoCall
    /\ UNCHANGED <<cache, writers, keys, fn, timer>>

\* ----------------------------------------------- common.get_app_dir et al.

\* common.py:129-136: the caller gets the path; the directory is ensured.
get_app_dir_call ==
    /\ dirs' = get_app_dir(dirs)
    /\ last' = Call("get_app_dir", AppDirPath, None, "-")
    /\ prev' = last
    /\ UNCHANGED <<cache, disk, writers, keys, fn, timer>>

\* common.py:151-161.
get_user_dir_call(user) ==
    /\ dirs' = get_user_dir(dirs, user)
    /\ last' = Call("get_user_dir", UserDirPath(user), None, "-")
    /\ prev' = last
    /\ UNCHANGED <<cache, disk, writers, keys, fn, timer>>

\* common.py:176-186.
get_cache_call(user) ==
    /\ dirs' = get_cache(dirs, user)
    /\ last' = Call("get_cache", CachePath(user), None, "-")
    /\ prev' = last
    /\ UNCHANGED <<cache, disk, writers, keys, fn, timer>>

\* The directories that may exist: each with every directory above it.
DirStates ==
    { Prefixes(p) : p \in {TempDir, AppDirPath, UserDirPath(username), CachePath(username)} }

\* The files that may exist given the directories: cache entries in the
\* cache directory, the auth file in the user directory.
DiskStates(ds) ==
    { d \in UNION { [F -> { Dump(v) : v \in Values }] :
                      F \in SUBSET (Files \cup {AuthPath(username)}) } :
        \A f \in DOMAIN d : SubSeq(f, 1, Len(f) - 1) \in ds }

InitDirs ==
    /\ cache = Empty
    /\ dirs \in DirStates
    /\ disk \in DiskStates(dirs)
    /\ writers = EmptyBag
    /\ last = NoCall
    /\ prev = NoCall
    /\ keys = {}
    /\ fn = FnIdle
    /\ timer = TimerIdle

NextDirs ==
    \/ get_app_dir_call
    \/ get_user_dir_call(username)
    \/ get_cache_call(username)
    \/ \E ok \in BOOLEAN : clear_cache(ok)
    \/ \E ok \in BOOLEAN : clear_auth(ok)

SpecDirs == InitDirs /\ [][NextDirs]_vars

\* ------------------------------------------------------ UriCache.__init__

\* Every save() thread has ended.
AllEnded == \A w \in BagToSet(writers) : w.pc \in {"done", "failed"}

\* cache.py:12-17: a fresh instance for the same user; after an uncaught
\* exception the process is restarted once its threads have ended.
NewInstance ==
    /\ last.op # "new"
    /\ Crashed => AllEnded
    /\ cache' = Empty
    /\ last' = Call("new", <<>>, None, "-")
    /\ prev' = NoCall
    /\ UNCHANGED <<disk, dirs, writers, keys, fn, timer>>

\* ------------------------------------------------------------------- spec

Next ==
    \/ \E k \in keys : get(k)
    \/ \E k \in keys, v \in Values : setitem(k, v)
    \/ \E k \in keys, ok \in BOOLEAN : clear(k, ok)
    \/ \E ok \in BOOLEAN : clear_cache(ok)
    \/ NewInstance
    \/ \E w \in BagToSet(writers), ok \in BOOLEAN : save_open(w, ok)
    \/ \E w \in BagToSet(writers) : \E n \in 1..Len(Dump(w.item)) : save_dump(w, n)
    \/ \E w \in BagToSet(writers) : save_fail(w)

Spec == Init /\ [][Next]_vars

\* The key sets of the runs on two files: two keys with one file, and two
\* keys with a file each.
FrameKeySets == KeySets \cup { { <<"a", ":", "b">>, <<"c">> } }

InitFrame ==
    /\ cache = Empty
    /\ disk = Empty
    /\ dirs = {TempDir, AppDirPath}
    /\ writers = EmptyBag
    /\ last = NoCall
    /\ prev = NoCall
    /\ keys \in FrameKeySets
    /\ fn = FnIdle
    /\ timer = TimerIdle

SpecFrame == InitFrame /\ [][Next]_vars

\* --------------------------------------------- get_filename on drawn keys

InitFn ==
    /\ cache = Empty
    /\ disk = Empty
    /\ dirs = {TempDir, AppDirPath}
    /\ writers = EmptyBag
    /\ last = NoCall
    /\ prev = NoCall
    /\ keys = {}
    /\ fn \in { FnInput(k1, k2) : k1 \in KeyStrings, k2 \in KeyStrings }
    /\ timer = TimerIdle

\* cache.py:70-80 called on k1 and on k2; get_cache creates the directories.
ApplyFn ==
    /\ ~fn.done
    /\ fn' = [fn EXCEPT !.p1 = get_filename(fn.k1), !.p2 = get_filename(fn.k2),
                        !.done = TRUE]
    /\ dirs' = get_cache(dirs, username)
    /\ UNCHANGED <<cache, disk, writers, last, prev, keys, timer>>

NextFn == ApplyFn

SpecFn == InitFn /\ [][NextFn]_vars

\* ------------------------------------------------ common.PeriodicCallback

\* The run of update calls with call_time t, after one more that fired f times.
RunAfter(t, f) ==
    IF timer.op = "update" /\ timer.run.t = t
    THEN [timer.run EXCEPT !.calls = @ + 1, !.fired = @ + f]
    ELSE [t |-> t, base |-> timer.next, calls |-> 1, fired |-> f]

\* update comparing with >: a call at exactly the next-fire time does not fire.
update_strict(call_time) ==
    /\ (timer.op = "update" /\ timer.run.t = call_time) => timer.run.calls < MaxCalls
    /\ IF call_time > timer.next /\ timer.active
       THEN timer' = [timer EXCEPT !.next = @ + timer.period,
                                   !.was = timer.op, !.op = "update", !.at = call_time, !.fired = 1,
                                   !.run = RunAfter(call_time, 1)]
       ELSE timer' = [timer EXCEPT !.was = timer.op, !.op = "update", !.at = call_time, !.fired = 0,
                                   !.run = RunAfter(call_time, 0)]
    /\ UNCHANGED <<cache, disk, dirs, writers, last, prev, keys, fn>>

\* common.py:305-308, PeriodicCallback.update: call func once and move the next-fire time one period on,
\* when call_time has reached it and the instance is active.
update(call_time) ==
    /\ (timer.op = "update" /\ timer.run.t = call_time) => timer.run.calls < MaxCalls
    /\ IF call_time >= timer.next /\ timer.active
       THEN timer' = [timer EXCEPT !.next = @ + timer.period,
                                   !.was = timer.op, !.op = "update", !.at = call_time, !.fired = 1,
                                   !.run = RunAfter(call_time, 1)]
       ELSE timer' = [timer EXCEPT !.was = timer.op, !.op = "update", !.at = call_time, !.fired = 0,
                                   !.run = RunAfter(call_time, 0)]
    /\ UNCHANGED <<cache, disk, dirs, writers, last, prev, keys, fn>>

\* common.py:310-311.
call_at(call_time) ==
    /\ timer' = [timer EXCEPT !.next = call_time,
                               !.was = timer.op, !.op = "call_at", !.at = call_time, !.fired = 0, !.run = NoRun]
    /\ UNCHANGED <<cache, disk, dirs, writers, last, prev, keys, fn>>

\* common.py:313-314: the next-fire time is time.time() + delta.
call_in(delta) ==
    /\ timer' = [timer EXCEPT !.next = timer.now + delta,
                               !.was = timer.op, !.op = "call_in", !.at = delta, !.fired = 0, !.run = NoRun]
    /\ UNCHANGED <<cache, disk, dirs, writers, last, prev, keys, fn>>

\* common.py:316-317: self.call_in(0).
call_now ==
    /\ timer' = [timer EXCEPT !.next = timer.now + 0,
                               !.was = timer.op, !.op = "call_now", !.at = 0, !.fired = 0, !.run = NoRun]
    /\ UNCHANGED <<cache, disk, dirs, writers, last, prev, keys, fn>>

\* activate without its call_now: the next-fire time stays.
activate_flag_only ==
    /\ timer' = [timer EXCEPT !.active = TRUE,
                               !.was = timer.op, !.op = "activate", !.at = 0, !.fired = 0, !.run = NoRun]
    /\ UNCHANGED <<cache, disk, dirs, writers, last, prev, keys, fn>>

\* common.py:322-325: set the flag, then self.call_now().
activate ==
    /\ timer' = [timer EXCEPT !.active = TRUE, !.next = timer.now + 0,
                               !.was = timer.op, !.op = "activate", !.at = 0, !.fired = 0, !.run = NoRun]
    /\ UNCHANGED <<cache, disk, dirs, writers, last, prev, keys, fn>>

\* common.py:327-329.
deactivate ==
    /\ timer' = [timer EXCEPT !.active = FALSE,
                               !.was = timer.op, !.op = "deactivate", !.at = 0, !.fired = 0, !.run = NoRun]
    /\ UNCHANGED <<cache, disk, dirs, writers, last, prev, keys, fn>>

\* time.time() moves on.
Tick ==
    /\ timer.now < MaxTime
    /\ timer' = [timer EXCEPT !.now = @ + 1]
    /\ UNCHANGED <<cache, disk, dirs, writers, last, prev, keys, fn>>

InitTimer ==
    /\ cache = Empty
    /\ disk = Empty
    /\ dirs = {TempDir, AppDirPath}
    /\ writers = EmptyBag
    /\ last = NoCall
    /\ prev = NoCall
    /\ keys = {}
    /\ fn = FnIdle
    /\ timer \in { PeriodicCallback(p, a, 0) : p \in 1..MaxPeriod, a \in BOOLEAN }

NextTimer ==
    \/ \E t \in 0..MaxTime : update(t)
    \/ \E t \in 0..MaxTime : call_at(t)
    \/ \E d \in 0..MaxPeriod : call_in(d)
    \/ call_now
    \/ activate
    \/ deactivate
    \/ Tick

SpecTimer == InitTimer /\ [][NextTimer]_vars

\* ----------------------------------------------------------------- claims

\* The threads of the entry file f.
WritersOf(f) == { w \in BagToSet(writers) : w.file = f }

\* Every thread started has written its whole pickle and closed its file.
AllDone == writers # EmptyBag /\ \A w \in BagToSet(writers) : w.pc = "done"

\* C1: a get(k) directly after set(k, v) returns v, from memory, whatever
\* the save threads have or have not done: not started, in progress,
\* completed or failed.
C1_ReadYourWrites ==
    (last.op = "get" /\ prev.op = "set") =>
        (last.val = prev.val /\ last.src = "mem")

\* C1 witness: get returned the value just set while the thread that set
\* started has not yet opened the file.
C1_Witness ==
    /\ last.op = "get" /\ prev.op = "set" /\ last.val = prev.val
    /\ \E w \in WritersOf(get_filename(last.key)) :
          w.pc = "start" /\ w.item = last.val
    /\ get_filename(last.key) \notin DOMAIN disk

\* C2 (as claimed): a get(k) directly after clear(k) returns absence, also
\* when a write started by an earlier set(k, v) is still in flight.
C2_ClearThenGetAbsent ==
    (last.op = "get" /\ prev.op = "clear") =>
        (last.val = None /\ last.src = "miss")

\* C3 (as claimed): after sets on one key, once every thread has completed
\* its write, the key's file holds the value memory holds for the key.
C3_MemoryDiskConverge ==
    (last.op = "set" /\ prev.op = "set" /\ AllDone) =>
        /\ get_filename(last.key) \in DOMAIN disk
        /\ Loadable(disk[get_filename(last.key)])
        /\ Load(disk[get_filename(last.key)]) = cache[last.key]

\* The only thread ever started on file f has completed its write of v, and
\* the file it wrote has not been removed since.
SoleWriteDone(f, v) ==
    /\ \A w \in WritersOf(f) : w.pc = "done" /\ w.linked /\ w.item = v
    /\ \E w \in WritersOf(f) : CopiesIn(w, writers) = 1

\* C4: once the one write to k's file has completed and nothing else has
\* touched the file, the file unpickles to v, and a get(k) on a fresh
\* instance returns v, read from disk.
C4_FileHoldsValue ==
    \A f \in Files, v \in Values :
        SoleWriteDone(f, v) =>
            (f \in DOMAIN disk /\ Loadable(disk[f]) /\ Load(disk[f]) = v)

C4_FreshGet ==
    \A k \in Keys, v \in Values :
        (get(k) /\ last.op = "new" /\ SoleWriteDone(get_filename(k), v)) =>
            (last'.val = v /\ last'.src = "disk")

C4_DiskPersistence == []C4_FileHoldsValue /\ [][C4_FreshGet]_vars

\* C4 witness: a fresh instance's get read the value of the one completed write.
C4_Witness ==
    /\ last.op = "get" /\ prev.op = "new" /\ last.src = "disk"
    /\ SoleWriteDone(get_filename(last.key), last.val)

\* C5 (as claimed): get never raises.
C5_GetNeverRaises == last.src # "raise"

\* A step of the main thread that is a get(k).
GetStep(k) == last'.op = "get" /\ last'.key = k /\ get(k)

\* C6: a get(k) with k in memory returns the memory value and changes
\* neither memory nor the files nor the directories (it makes no call that
\* touches the disk), whatever k's file holds.
C6_MemoryHit ==
    \A k \in Keys :
        (k \in DOMAIN cache /\ GetStep(k)) =>
            /\ last'.val = cache[k] /\ last'.src = "mem"
            /\ cache' = cache /\ disk' = disk /\ dirs' = dirs

C6_MemoryHitAlways == [][C6_MemoryHit]_vars

\* C6 witness: get returned the memory value while k's file held a pickle
\* of another value.
C6_Witness ==
    /\ last.op = "get" /\ last.src = "mem"
    /\ get_filename(last.key) \in DOMAIN disk
    /\ Loadable(disk[get_filename(last.key)])
    /\ Load(disk[get_filename(last.key)]) # last.val

\* C7: a get(k) with k not in memory and k's file holding a pickle of v
\* returns v, stores v in memory for k and leaves the files unchanged.
C7_DiskHit ==
    \A k \in Keys :
        (/\ k \notin DOMAIN cache
         /\ get_filename(k) \in DOMAIN disk
         /\ Loadable(disk[get_filename(k)])
         /\ GetStep(k)) =>
            /\ last'.val = Load(disk[get_filename(k)]) /\ last'.src = "disk"
            /\ cache' = With(cache, k, Load(disk[get_filename(k)]))
            /\ disk' = disk

\* C7: the next get(k) after a disk hit returns the same value from memory,
\* whatever the threads did to the file in between.
C7_ThenFromMemory ==
    (last.op = "get" /\ prev.op = "get" /\ prev.src = "disk") =>
        (last.val = prev.val /\ last.src = "mem")

\* C7: removing the cache directory with its files leaves memory as it is.
C7_RemovalKeepsMemory == (\E ok \in BOOLEAN : clear_cache(ok)) => cache' = cache

C7_DiskHitPopulatesMemory ==
    [][C7_DiskHit /\ C7_RemovalKeepsMemory]_vars /\ []C7_ThenFromMemory

\* C7 witness: the get after a disk hit returned the value from memory
\* although the file had been truncated or rewritten in between.
C7_Witness ==
    /\ last.op = "get" /\ last.src = "mem"
    /\ prev.op = "get" /\ prev.src = "disk" /\ last.val = prev.val
    /\ get_filename(last.key) \in DOMAIN disk
    /\ disk[get_filename(last.key)] # Dump(last.val)

\* C8: a get(k) with k neither in memory nor on disk returns None without
\* raising and changes neither memory nor the files.
C8_Miss ==
    \A k \in Keys :
        (/\ k \notin DOMAIN cache
         /\ get_filename(k) \notin DOMAIN disk
         /\ GetStep(k)) =>
            /\ last'.val = None /\ last'.src = "miss"
            /\ cache' = cache /\ disk' = disk

C8_MissAlways == [][C8_Miss]_vars

\* C8 witness: a get missed and the key is still not in memory.
C8_Witness ==
    /\ last.op = "get" /\ last.src = "miss" /\ last.val = None
    /\ last.key \notin DOMAIN cache

\* A step of the main thread that is a clear(k) directly after a clear(k).
SecondClear(k) ==
    /\ last.op = "clear" /\ last.key = k
    /\ last'.op = "clear" /\ last'.key = k
    /\ \E ok \in BOOLEAN : clear(k, ok)

\* C9 (as claimed): clear never raises, and a clear(k) directly after a
\* clear(k) leaves memory and the files exactly as the first left them.
C9_SecondClearChangesNothing ==
    \A k \in Keys : SecondClear(k) => (cache' = cache /\ disk' = disk)

C9_SecondClearRemovesAtMostFile ==
    \A k \in Keys :
        SecondClear(k) =>
            /\ cache' = cache
            /\ get_filename(k) \notin DOMAIN disk => disk' = disk
            /\ \/ disk' = disk
               \/ disk' = Without(disk, get_filename(k))

C9_ClearNoError ==
    last.op = "clear" => (last.src # "raise" /\ last.key \notin DOMAIN cache)

C9_ClearTotal == []C9_ClearNoError /\ [][C9_SecondClearRemovesAtMostFile]_vars

\* r is k with every ':' replaced by '_'.
IsSanitized(k, r) ==
    /\ Len(r) = Len(k)
    /\ \A i \in 1..Len(k) : (k[i] = ":" => r[i] = "_") /\ (k[i] # ":" => r[i] = k[i])

\* k1 and k2 are equal after every ':' is replaced by '_'.
SameSanitized(k1, k2) ==
    /\ Len(k1) = Len(k2)
    /\ \A i \in 1..Len(k1) : k1[i] = k2[i] \/ {k1[i], k2[i]} = {":", "_"}

\* p is the file named r in the user's cache directory.
InCacheDir(p, r) ==
    /\ Len(p) = Len(CachePath(username)) + 1
    /\ SubSeq(p, 1, Len(p) - 1) = <<"tmp", "spotifyterminal", username, ".cache">>
    /\ p[Len(p)] = r

\* C10: get_filename(k) is the user's cache directory joined with k in
\* which every ':' is '_', and two keys get one path exactly when they are
\* equal after that replacement.
C10_KeyToFilename ==
    fn.done =>
        /\ \E r \in KeyStrings : IsSanitized(fn.k1, r) /\ InCacheDir(fn.p1, r)
        /\ \E r \in KeyStrings : IsSanitized(fn.k2, r) /\ InCacheDir(fn.p2, r)
        /\ (fn.p1 = fn.p2) <=> SameSanitized(fn.k1, fn.k2)

\* C10 witness: "a:b" and "a_b" were mapped to one path.
C10_Witness ==
    /\ fn.done
    /\ fn.k1 = <<"a", ":", "b">> /\ fn.k2 = <<"a", "_", "b">>
    /\ fn.p1 = fn.p2

\* A step that is one update(t) call.
UpdateStep(t) == timer'.op = "update" /\ timer'.at = t /\ update(t)

\* C11: update(now) invokes the callable exactly once and moves the
\* next-fire time on by exactly one period when now >= next-fire time and
\* the instance is active; otherwise it invokes nothing and leaves the
\* next-fire time alone; either way the flag and the period stay.
C11_Update ==
    \A t \in 0..MaxTime :
        UpdateStep(t) =>
            /\ IF t >= timer.next /\ timer.active
               THEN timer'.fired = 1 /\ timer'.next = timer.next + timer.period
               ELSE timer'.fired = 0 /\ timer'.next = timer.next
            /\ timer'.active = timer.active
            /\ timer'.period = timer.period

C11_UpdateFiresOnce == [][C11_Update]_vars

\* C11 witness: an update made exactly at the next-fire time fired.
C11_Witness ==
    /\ timer.op = "update" /\ timer.fired = 1
    /\ timer.next = timer.at + timer.period

\* A run of update calls, all with call_time run.t, on an active instance
\* whose next-fire time was run.base <= run.t at the first of them.
DueRun == timer.op = "update" /\ timer.active /\ timer.run.t >= timer.run.base

\* C12 (as claimed): when update was not called for one period or more, the
\* update calls made at one time invoke the callable once in total.
C12_MissedTicksCoalesced ==
    (DueRun /\ timer.run.t >= timer.run.base + timer.period) => timer.run.fired = 1

\* The smaller of two numbers.
Min(a, b) == IF a <= b THEN a ELSE b

\* What holds instead: missed ticks are deferred, not dropped: the update
\* calls made at one time now invoke the callable once per call until the
\* next-fire time has passed now, that is min(calls, n + 1) times for
\* n = (now - next-fire time) div period, each moving the time one period on.
C12_MissedTicksDeferred ==
    DueRun =>
        /\ timer.run.fired =
               Min(timer.run.calls, ((timer.run.t - timer.run.base) \div timer.period) + 1)
        /\ timer.next = timer.run.base + timer.run.fired * timer.period

\* C18: while inactive no update invokes the callable or moves the
\* next-fire time; deactivate changes the flag only; activate sets the flag
\* and the next-fire time to the current time, so the next update at or
\* after that time fires; call_at(t) sets the next-fire time to t, call_now
\* and call_in(d) to the current time (plus d), none of them invoking the
\* callable or changing the flag.
C18_Reschedule ==
    /\ \A t \in 0..MaxTime :
           (UpdateStep(t) /\ ~timer.active) => timer'.fired = 0 /\ timer'.next = timer.next
    /\ (timer'.op = "deactivate" /\ deactivate) =>
           /\ ~timer'.active /\ timer'.fired = 0
           /\ timer'.next = timer.next /\ timer'.period = timer.period
    /\ (timer'.op = "activate" /\ activate) =>
           /\ timer'.active /\ timer'.fired = 0
           /\ timer'.next = timer.now /\ timer'.period = timer.period
    /\ \A t \in 0..MaxTime :
           (UpdateStep(t) /\ timer.op = "activate" /\ t >= timer.next) => timer'.fired = 1
    /\ \A t \in 0..MaxTime :
           (timer'.op = "call_at" /\ call_at(t)) =>
               /\ timer'.next = t /\ timer'.fired = 0
               /\ timer'.active = timer.active /\ timer'.period = timer.period
    /\ \A d \in 0..MaxPeriod :
           (timer'.op = "call_in" /\ call_in(d)) =>
               /\ timer'.next = timer.now + d /\ timer'.fired = 0
               /\ timer'.active = timer.active /\ timer'.period = timer.period
    /\ (timer'.op = "call_now" /\ call_now) =>
           /\ timer'.next = timer.now /\ timer'.fired = 0
           /\ timer'.active = timer.active /\ timer'.period = timer.period

C18_ActivationAndRescheduling == [][C18_Reschedule]_vars

\* C18 witness: an instance whose next-fire time lay ahead was activated
\* later on, and the update after that fired.
C18_Witness ==
    /\ timer.op = "update" /\ timer.was = "activate" /\ timer.fired = 1
    /\ timer.run.base > 0 /\ timer.run.base = timer.now

\* The calls that return a directory.
DirCalls == {"get_app_dir", "get_user_dir", "get_cache"}

\* A step that is one call of get_app_dir, get_user_dir or get_cache.
DirCallStep ==
    \/ last'.op = "get_app_dir" /\ get_app_dir_call
    \/ last'.op = "get_user_dir" /\ get_user_dir_call(username)
    \/ last'.op = "get_cache" /\ get_cache_call(username)

\* C13: when get_app_dir, get_user_dir or get_cache has returned, the
\* directory it returned and every directory above it exist, whatever
\* existed before (so a deleted directory is created again).
C13_DirExists ==
    last.op \in DirCalls => Prefixes(last.key) \subseteq dirs

\* C13: a call changes no file, and a second call of the same function
\* returns the same path and changes nothing on disk.
C13_SecondCall ==
    DirCallStep =>
        /\ disk' = disk
        /\ last.op = last'.op => last'.key = last.key /\ dirs' = dirs

C13_EnsureDir == []C13_DirExists /\ [][C13_SecondCall]_vars

\* C13 witness: clear_cache removed the cache directory and the get_cache
\* after it returned with the directory in place.
C13_Witness ==
    /\ last.op = "get_cache" /\ prev.op = "clear_cache" /\ prev.val = "removed"
    /\ last.key \in dirs

\* C14: clear_cache and clear_auth return normally whether the directory
\* or file was there or not and whether the removal failed or not; when
\* the removal succeeded, the cache directory and every file in it, or
\* the auth file, are gone.
C14_ClearNeverFails ==
    /\ last.op \in {"clear_cache", "clear_auth"} => last.src # "raise"
    /\ (last.op = "clear_cache" /\ last.val = "removed") =>
           /\ CachePath(username) \notin dirs
           /\ \A f \in DOMAIN disk : ~Under(CachePath(username), f)
    /\ (last.op = "clear_auth" /\ last.val = "removed") =>
           AuthPath(username) \notin DOMAIN disk

\* C14 witness: clear_auth found no auth file to remove, in a user
\* directory whose cache clear_cache could not remove, and returned.
C14_Witness ==
    /\ last.op = "clear_auth" /\ last.val = "logged" /\ last.src = "-"
    /\ AuthPath(username) \notin DOMAIN disk
    /\ \E f \in DOMAIN disk : Under(CachePath(username), f)

\* Two sets on one key with different values, the latest calls made, are
\* the only sets so far.
TwoSets ==
    /\ last.op = "set" /\ prev.op = "set" /\ last.val # prev.val
    /\ BagCardinality(writers) = 2

\* C15 (as claimed): after set(k, v1) and set(k, v2), when the second of the
\* two threads to complete closes the file both wrote, the file holds the
\* value of that thread.
C15_LastCompleted ==
    \A w \in BagToSet(writers) : \A n \in 1..Len(Dump(w.item)) :
        ( /\ TwoSets
          /\ save_dump(w, n)
          /\ w.linked /\ w.off + n = Len(Dump(w.item))
          /\ \A x \in BagToSet(writers) : x # w => x.pc = "done" /\ x.linked )
        => disk'[w.file] = Dump(w.item)

C15_LastCompletedWins == [][C15_LastCompleted]_vars

\* C16 (as claimed): when the thread of the one set(k, v) made so far has
\* failed, memory holds v, the main thread has seen no exception, and k's
\* file is as it was before the set: missing.
C16_FailedWriteLeavesFile ==
    ( /\ last.op = "set"
      /\ BagCardinality(writers) = 1
      /\ \E w \in WritersOf(get_filename(last.key)) : w.pc = "failed" )
    => /\ cache[last.key] = last.val
       /\ ~Crashed
       /\ get_filename(last.key) \notin DOMAIN disk

\* What holds instead: the failed thread is never run again, memory keeps
\* the value, and the file is missing, stale, or holds the part of the
\* pickle that was flushed before the failure.
C16_FailedWriteNotSurfaced ==
    ( /\ last.op = "set"
      /\ BagCardinality(writers) = 1
      /\ \E w \in WritersOf(get_filename(last.key)) : w.pc = "failed" )
    => /\ cache[last.key] = last.val
       /\ ~Crashed
       /\ get_filename(last.key) \in DOMAIN disk =>
              \E n \in 0..Len(Dump(last.val)) :
                  disk[get_filename(last.key)] = SubSeq(Dump(last.val), 1, n)

\* A step that is one clear(k) call whose os.remove does or does not work.
ClearStep(k, ok) == last'.op = "clear" /\ last'.key = k /\ clear(k, ok)

\* C17 (as claimed): with no write in flight, after clear(k) k is absent
\* from memory and k's file does not exist.
C17_ClearRemovesBoth ==
    \A k \in keys : \A ok \in BOOLEAN :
        (ClearStep(k, ok) /\ AllEnded) =>
            /\ k \notin DOMAIN cache'
            /\ get_filename(k) \notin DOMAIN disk'

C17_ClearRemovesBothTiers == [][C17_ClearRemovesBoth]_vars

\* C17 (amended): clear(k) removes k from memory whether or not the file is
\* there and whether or not its removal works, and removes the file
\* whether or not memory holds k; when the removal fails the file stays as
\* it is, otherwise k's file does not exist when clear returns. Entries of
\* other keys stay.
C17_ClearTiers ==
    \A k \in keys : \A ok \in BOOLEAN :
        ClearStep(k, ok) =>
            /\ k \notin DOMAIN cache'
            /\ \A j \in keys \ {k} :
                   /\ j \in DOMAIN cache' <=> j \in DOMAIN cache
                   /\ j \in DOMAIN cache => cache'[j] = cache[j]
            /\ IF ok THEN get_filename(k) \notin DOMAIN disk' ELSE disk' = disk

C17_ClearTreatsTiersIndependently == [][C17_ClearTiers]_vars

\* C17 witness: no write is in flight, clear(k) has returned, memory does not
\* hold k and k's file is there, whole.
C17_Witness ==
    /\ last.op = "clear" /\ AllEnded
    /\ last.key \notin DOMAIN cache
    /\ get_filename(last.key) \in DOMAIN disk
    /\ Loadable(disk[get_filename(last.key)])

\* A step that is one set(k, v) call.
SetStep(k) == last'.op = "set" /\ last'.key = k /\ \E v \in Values : setitem(k, v)

\* The step leaves the memory entry of k as it is: absent, or the same value.
MemSame(k) ==
    /\ k \in DOMAIN cache' <=> k \in DOMAIN cache
    /\ k \in DOMAIN cache => cache'[k] = cache[k]

\* The step leaves the file f as it is: absent, or the same bytes.
FileSame(f) ==
    /\ f \in DOMAIN disk' <=> f \in DOMAIN disk
    /\ f \in DOMAIN disk => disk'[f] = disk[f]

\* C19: on one instance the memory entry of k is added, changed or removed
\* only by set(k, .), by clear(k) and by a get(k) that reads the disk: not
\* by a step of a save thread, not by a call on another key, also one with
\* the same file name, and not by clear_cache; and set(k, v), its save
\* thread and clear(k) leave the files of keys with another file name as
\* they are: a step that changes such a file is none of these.
C19_Frame ==
    \A k \in keys :
        /\ (~MemSame(k) /\ ~NewInstance) =>
               \/ SetStep(k)
               \/ \E ok \in BOOLEAN : ClearStep(k, ok)
               \/ GetStep(k) /\ last'.src = "disk"
        /\ LET fk == get_filename(k) IN
           \A f \in Files \ {fk} :
               ~FileSame(f) =>
                   ~ \/ SetStep(k)
                     \/ \E ok \in BOOLEAN : ClearStep(k, ok)
                     \/ \E w \in BagToSet(writers) :
                           /\ w.file = fk
                           /\ \/ \E ok \in BOOLEAN : save_open(w, ok)
                              \/ \E n \in 1..Len(Dump(w.item)) : save_dump(w, n)
                              \/ save_fail(w)

C19_MemoryFrame == [][C19_Frame]_vars

\* C19 witness: two keys with one file name hold different values in
\* memory, the later set has left the entry of the other key alone, and
\* both save threads have completed.
C19_Witness ==
    /\ last.op = "set" /\ AllDone
    /\ \E j \in keys :
           /\ j # last.key /\ get_filename(j) = get_filename(last.key)
           /\ j \in DOMAIN cache /\ cache[j] # cache[last.key]

\* A step that is one clear_cache call.
ClearCacheStep(ok) == last'.op = "clear_cache" /\ clear_cache(ok)

\* C20: clear_cache, when its removal works, leaves no entry file of the
\* user and leaves the memory of the live instance as it is: afterwards a
\* get(k) for a key memory holds still returns the old value, while a
\* get(k) on an instance with empty memory returns None.
C20_Stale ==
    /\ \A ok \in BOOLEAN :
           ClearCacheStep(ok) =>
               /\ cache' = cache
               /\ ok => /\ \A f \in Files : f \notin DOMAIN disk'
                         /\ CachePath(username) \notin dirs'
    /\ \A k \in keys :
           (GetStep(k) /\ CachePath(username) \notin dirs) =>
               IF k \in DOMAIN cache
               THEN last'.val = cache[k] /\ last'.src = "mem" /\ cache' = cache
               ELSE last'.val = None /\ last'.src = "miss" /\ cache' = cache

C20_StaleMemoryAfterClearCache == [][C20_Stale]_vars

\* C20 witness: the cache directory is gone with the file of k, whose save
\* thread had completed, and get(k) on the live instance has returned the
\* value from memory.
C20_Witness ==
    /\ last.op = "get" /\ last.src = "mem" /\ last.val \in Values
    /\ CachePath(username) \notin dirs
    /\ \E w \in WritersOf(get_filename(last.key)) :
           w.pc = "done" /\ ~w.linked /\ w.item = last.val

====
